---- MODULE Spec2Model ----
(***************************************************************************)
(* SbmlDatabase (src/SbmlDatabase.py): synchronisation of SBML models into *)
(* a Neo4j property graph and the similarity query over the stored graph.  *)
(*                                                                         *)
(* The store is the pair (nodes, rels).  Every call of connection.query,   *)
(* create_nodes and create_relationships is one atomic step; a method of   *)
(* SbmlDatabase that issues several of them is a sequence of steps followed *)
(* by the caller's program counter pc.                                     *)
(***************************************************************************)
EXTENDS Integers, Sequences, FiniteSets, TLC

\* ------------------------------------------------------------------ bounds
MaxBatch == 2       \* longest model_list handed to import_models
MaxKids  == 2       \* most child elements in one SBML file
MaxNest  == 1       \* most containment edges between two child elements
MaxCount == 10      \* largest path count handed to the structural similarity
MaxWideKids == 3    \* most child elements of a model whose children are compared

\* ------------------------------------------------------------ input sets
Procs    == {"p1", "p2"}          \* callers holding an SbmlDatabase
SeqProcs == {"p1"}                \* the single caller of the sequential runs
Tags     == {"t1", "t2"}          \* model_id values (file names, node tags)
ModelIds == {"m1", "m2"}          \* id attribute of the <model> element
ChildIds == {"x", "y"}            \* id attribute of a child element
KidLabels == {"Compartment", "Species", "Reaction", "UnitDefinition"}

None == "none"

\* relationship type the schema gives to the containment of a child
HasType(label) ==
    CASE label = "Compartment"    -> "HAS_COMPARTMENT"
      [] label = "Species"        -> "HAS_SPECIES"
      [] label = "Reaction"       -> "HAS_REACTION"
      [] label = "UnitDefinition" -> "HAS_UNITDEFINITION"

Kids == [label : KidLabels, id : ChildIds]

SmallSubsets(S, k) == {T \in SUBSET S : Cardinality(T) <= k}

\* content of one <model_id>.xml: the model's id, its child elements and the
\* containment edges the schema draws from a compartment to a species in it
Files ==
    UNION { UNION { { [mid |-> m, kids |-> ks, nest |-> ns] :
                        ns \in SmallSubsets({e \in ks \X ks : e[1].label = "Compartment"
                                                                /\ e[2].label = "Species"}, MaxNest) } :
                    ks \in SmallSubsets(Kids, MaxKids) } :
            m \in ModelIds }

\* the files the folder holds while models are synchronised
SyncKids == { [label |-> "Species", id |-> "x"], [label |-> "Compartment", id |-> "y"] }
SyncFiles == {f \in Files : f.mid = "m1" /\ f.kids \subseteq SyncKids /\ f.nest = {}}

\* ------------------------------------------------------------------ state
VARIABLES
    nodes,       \* the store's nodes: [tag, imp, label, id]
    rels,        \* the store's relationships: [src, dst, type]
    pc,          \* per caller: position in the running method
    op,          \* per caller: the method called last
    model_id,    \* per caller: argument / loop variable model
    model_list,  \* per caller: argument of import_models
    idx,         \* per caller: position of the loop in model_list
    nod,         \* per caller: formatted node records
    rel,         \* per caller: formatted relationship records
    ret,         \* per caller: outcome of the last call
    pre,         \* per caller: the store when the running (sub)call began
    nops,        \* per caller: store operations issued by the call
    again,       \* per caller: records of the directly preceding sync of the same tag
    ids,         \* per caller: arguments model_id1, model_id2 of compare_models
    calc         \* the counts handed to the structural similarity and its value

vars == <<nodes, rels, pc, op, model_id, model_list, idx, nod, rel, ret, pre, nops, again, ids, calc>>

\* ---------------------------------------------------------- store queries
\* MATCH (n) WHERE n.tag="{model_id}" RETURN (n)
MatchTag(ns, tag) == {n \in ns : n.tag = tag}

\* check_model_exists: `if not result: return False else: return True`
CheckAlwaysTrue(ns, tag) == TRUE
CheckAlwaysFalse(ns, tag) == FALSE
CheckModelExists(ns, tag) == MatchTag(ns, tag) # {}

\* MATCH (n) WHERE n.tag="{model_id}" DETACH DELETE n : the matched nodes go,
\* and with them every relationship attached to one of them
DeleteEverything(ns, rs, tag) == [nodes |-> {}, rels |-> {}]
DeleteNothing(ns, rs, tag) == [nodes |-> ns, rels |-> rs]
DeleteNodesOnly(ns, rs, tag) == [nodes |-> ns \ MatchTag(ns, tag), rels |-> rs]
DeleteModel(ns, rs, tag) ==
    [nodes |-> ns \ MatchTag(ns, tag),
     rels  |-> {r \in rs : r.src \notin MatchTag(ns, tag) /\ r.dst \notin MatchTag(ns, tag)}]

\* load_and_import_model: `if self.check_model_exists(model_id): self.delete_model(model_id)`
NeverDelete(exists) == "parse"
AfterCheck(exists) == IF exists THEN "delete" ELSE "parse"

\* import_models: the tags the loop visits (`if not model_list: return`, then
\* `for model in model_list`)
DefaultBatch(list) == IF list = <<>> THEN <<"t1">> ELSE list
BatchPlan(list) == IF list = <<>> THEN <<>> ELSE list

\* ------------------------------------------------------ parser and mapper
\* sbm.format_nodes: one record per element, each carrying the tag
FormatNodes(f, tag) ==
    { [tag |-> tag, label |-> "Model", id |-> f.mid] }
      \cup { [tag |-> tag, label |-> k.label, id |-> k.id] : k \in f.kids }

\* sbm.format_relationships: endpoints named by label and id within the tag
FormatRelationships(f, tag) ==
    { [tag |-> tag, slabel |-> "Model", sid |-> f.mid,
       dlabel |-> k.label, did |-> k.id, type |-> HasType(k.label)] : k \in f.kids }
      \cup { [tag |-> tag, slabel |-> e[1].label, sid |-> e[1].id,
              dlabel |-> e[2].label, did |-> e[2].id, type |-> HasType(e[2].label)] :
             e \in f.nest }

\* ------------------------------------------------------------ store writes
\* identity the store gives to the nodes of one create_nodes call
FreshImp(ns) ==
    CHOOSE i \in 0..Cardinality(ns) :
        /\ \A n \in ns : n.imp # i
        /\ \A j \in 0..(i - 1) : \E n \in ns : n.imp = j

\* connection.create_nodes(nodes=nod)
CreateNodes(ns, nd) ==
    ns \cup { [tag |-> n.tag, imp |-> FreshImp(ns), label |-> n.label, id |-> n.id] : n \in nd }

\* connection.create_relationships(relationships=rel): each record is attached
\* to the stored nodes that carry its tag and its endpoint label and id
EndpointsAnyTag(ns, tag, label, id) == {n \in ns : n.label = label /\ n.id = id}
Endpoints(ns, tag, label, id) == {n \in ns : n.tag = tag /\ n.label = label /\ n.id = id}

CreateRelationships(ns, rs, rl) ==
    rs \cup UNION { { [src |-> s, dst |-> d, type |-> r.type] :
                        s \in Endpoints(ns, r.tag, r.slabel, r.sid),
                        d \in Endpoints(ns, r.tag, r.dlabel, r.did) } : r \in rl }

\* ------------------------------------------------------- compare_models
\* floats of the query as exact fractions <<numerator, denominator>>;
\* NaN is what the store's float division gives for 0 / 0.0
NaN == <<0, 0>>
One == <<1, 1>>

RECURSIVE GCD(_, _)
GCD(a, b) == IF b = 0 THEN a ELSE GCD(b, a % b)

Frac(n, d) == IF d = 0 THEN NaN ELSE <<n \div GCD(n, d), d \div GCD(n, d)>>

Abs(x) == IF x < 0 THEN -x ELSE x

\* 1.0 - abs(c1 - c2) / toFloat(c1 + c2)
RelDiffSigned(c1, c2) ==
    IF c1 + c2 = 0 THEN NaN ELSE Frac((c1 + c2) - (c1 - c2), c1 + c2)
RelDiffTerm(c1, c2) ==
    IF c1 + c2 = 0 THEN NaN ELSE Frac((c1 + c2) - Abs(c1 - c2), c1 + c2)

\* x * 0.5 + y * 0.5
WeightedByOne(x, y) ==
    IF x = NaN \/ y = NaN THEN NaN
    ELSE Frac(x[1] * y[2] + y[1] * x[2], x[2] * y[2])
Weighted(x, y) ==
    IF x = NaN \/ y = NaN THEN NaN
    ELSE Frac(x[1] * y[2] + y[1] * x[2], 2 * x[2] * y[2])

\* CASE WHEN n1_elements = n2_elements AND n1_relationships = n2_relationships
StructuralSimilarity(e1, e2, r1, r2) ==
    IF e1 = e2 /\ r1 = r2 THEN One
    ELSE Weighted(RelDiffTerm(e1, e2), RelDiffTerm(r1, r2))

StructTypes == {"HAS_COMPARTMENT", "HAS_UNITDEFINITION", "HAS_SPECIES", "HAS_REACTION"}
ChildTypes  == {"HAS_COMPARTMENT", "HAS_SPECIES", "HAS_REACTION"}

\* one hop of a variable-length pattern from node n: outgoing for -[..]->,
\* either direction for -[..]-
Hops(rs, n, dir) ==
    { <<r, r.dst>> : r \in {r \in rs : r.type \in StructTypes /\ r.src = n} }
      \cup (IF dir = "any"
            THEN { <<r, r.src>> : r \in {r \in rs : r.type \in StructTypes /\ r.dst = n} }
            ELSE {})

\* the paths of one or more hops that extend a set of paths; a path never
\* takes the same relationship twice
RECURSIVE Paths(_, _, _)
Paths(rs, frontier, dir) ==
    LET ext == UNION { { [seq |-> Append(t.seq, h[1]), end |-> h[2]] :
                           h \in {h \in Hops(rs, t.end, dir) :
                                    \A i \in 1..Len(t.seq) : t.seq[i] # h[1]} } :
                       t \in frontier }
    IN  IF ext = {} THEN {} ELSE ext \cup Paths(rs, ext, dir)

\* count{(n)-[:HAS_COMPARTMENT|HAS_UNITDEFINITION|HAS_SPECIES|HAS_REACTION*]->(_)}
\* and the same with -(_)
CountPaths(rs, n, dir) == Cardinality(Paths(rs, {[seq |-> <<>>, end |-> n]}, dir))

\* MATCH (n:Model {id: graph_id})
Roots(ns, id) == {n \in ns : n.label = "Model" /\ n.id = id}

\* MATCH (n1)-[..]->(child1) MATCH (n2)-[..]->(child2) WHERE labels(child1) = labels(child2)
ChildRels(rs, n) == {r \in rs : r.src = n /\ r.type \in ChildTypes}

PairRows(rs, n1, n2) ==
    {pr \in ChildRels(rs, n1) \X ChildRels(rs, n2) : pr[1].dst.label = pr[2].dst.label}

\* collect(child1), collect(c2.id), and the CASE over total_children
ChildrenSimilarity(rs, n1, n2) ==
    LET rows == PairRows(rs, n1, n2)
        children2_ids == {pr[2].dst.id : pr \in rows}
        total_children == Cardinality(rows)
    IN  IF total_children > 0
        THEN Frac(Cardinality({pr \in rows : pr[1].dst.id \in children2_ids}), total_children)
        ELSE One

StructureOf(rs, n1, n2) ==
    StructuralSimilarity(CountPaths(rs, n1, "out"), CountPaths(rs, n2, "out"),
                         CountPaths(rs, n1, "any"), CountPaths(rs, n2, "any"))

\* structural_similarity * w_structure + children_similarity * w_children
SimilarityScore(rs, n1, n2) ==
    Weighted(StructureOf(rs, n1, n2), ChildrenSimilarity(rs, n1, n2))

\* the rows the query returns: one per pair of roots that has a pair of
\* children with equal labels
QueryRows(ns, rs, id1, id2) ==
    { SimilarityScore(rs, pr[1], pr[2]) :
        pr \in {pr \in Roots(ns, id1) \X Roots(ns, id2) : PairRows(rs, pr[1], pr[2]) # {}} }

Snapshot == [nodes |-> nodes, rels |-> rels]

NoPrior == [valid |-> FALSE, nod |-> {}, rel |-> {}]

NoCalc == [n1_elements |-> 0, n2_elements |-> 0, n1_relationships |-> 0,
           n2_relationships |-> 0, done |-> FALSE, structural_similarity |-> NaN]

NoRet == [op |-> None, status |-> "pending", found |-> FALSE, score |-> <<0, 0>>]
Outcome(o, s) == [op |-> o, status |-> s, found |-> FALSE, score |-> <<0, 0>>]

----
Init ==
    /\ nodes = {}
    /\ rels = {}
    /\ pc = [p \in Procs |-> "idle"]
    /\ op = [p \in Procs |-> None]
    /\ model_id = [p \in Procs |-> None]
    /\ model_list = [p \in Procs |-> <<>>]
    /\ idx = [p \in Procs |-> 0]
    /\ nod = [p \in Procs |-> {}]
    /\ rel = [p \in Procs |-> {}]
    /\ ret = [p \in Procs |-> NoRet]
    /\ pre = [p \in Procs |-> [nodes |-> {}, rels |-> {}]]
    /\ nops = [p \in Procs |-> 0]
    /\ again = [p \in Procs |-> NoPrior]
    /\ ids = [p \in Procs |-> <<None, None>>]
    /\ calc = NoCalc

Lists == UNION { [1..n -> Tags] : n \in 0..MaxBatch }

\* the records of the sync that returned directly before this call, when it
\* was a sync of the same tag
Prior(p, t) ==
    IF /\ ret[p].status = "returned"
       /\ ret[p].op \in {"load_and_import_model", "import_models"}
       /\ model_id[p] = t
    THEN [valid |-> TRUE, nod |-> nod[p], rel |-> rel[p]]
    ELSE NoPrior

\* entry of a method called by the user
Enter(p, o, t, list, i, at) ==
    /\ pc[p] = "idle"
    /\ op' = [op EXCEPT ![p] = o]
    /\ model_id' = [model_id EXCEPT ![p] = t]
    /\ model_list' = [model_list EXCEPT ![p] = list]
    /\ idx' = [idx EXCEPT ![p] = i]
    /\ pc' = [pc EXCEPT ![p] = at]
    /\ nod' = [nod EXCEPT ![p] = {}]
    /\ rel' = [rel EXCEPT ![p] = {}]
    /\ pre' = [pre EXCEPT ![p] = Snapshot]
    /\ nops' = [nops EXCEPT ![p] = 0]
    /\ UNCHANGED <<nodes, rels, calc>>

\* database.load_and_import_model(t)
CallLoad(p, t) ==
    /\ Enter(p, "load_and_import_model", t, <<>>, 0, "check")
    /\ ret' = [ret EXCEPT ![p] = NoRet]
    /\ again' = [again EXCEPT ![p] = Prior(p, t)]
    /\ UNCHANGED ids

\* database.import_models(list)
CallImportModels(p, list) ==
    /\ IF BatchPlan(list) = <<>>
       THEN /\ Enter(p, "import_models", None, list, 0, "idle")
            /\ ret' = [ret EXCEPT ![p] = Outcome("import_models", "returned")]
            /\ again' = [again EXCEPT ![p] = NoPrior]
       ELSE /\ Enter(p, "import_models", BatchPlan(list)[1], list, 1, "check")
            /\ ret' = [ret EXCEPT ![p] = NoRet]
            /\ again' = [again EXCEPT ![p] = Prior(p, BatchPlan(list)[1])]
    /\ UNCHANGED ids

\* database.check_model_exists(t)
CallCheck(p, t) ==
    /\ Enter(p, "check_model_exists", t, <<>>, 0, "check")
    /\ ret' = [ret EXCEPT ![p] = NoRet]
    /\ again' = [again EXCEPT ![p] = NoPrior]
    /\ UNCHANGED ids

\* database.delete_model(t)
CallDelete(p, t) ==
    /\ Enter(p, "delete_model", t, <<>>, 0, "delete")
    /\ ret' = [ret EXCEPT ![p] = NoRet]
    /\ again' = [again EXCEPT ![p] = NoPrior]
    /\ UNCHANGED ids

\* check_model_exists: the query and the test of its result
CheckStep(p) ==
    /\ pc[p] = "check"
    /\ nops' = [nops EXCEPT ![p] = @ + 1]
    /\ IF op[p] = "check_model_exists"
       THEN /\ pc' = [pc EXCEPT ![p] = "idle"]
            /\ ret' = [ret EXCEPT ![p] =
                         [Outcome(op[p], "returned") EXCEPT
                            !.found = CheckModelExists(nodes, model_id[p])]]
       ELSE /\ pc' = [pc EXCEPT ![p] = AfterCheck(CheckModelExists(nodes, model_id[p]))]
            /\ UNCHANGED ret
    /\ UNCHANGED <<nodes, rels, op, model_id, model_list, idx, nod, rel, pre, again, ids, calc>>

\* delete_model: the DETACH DELETE query
DeleteStep(p) ==
    /\ pc[p] = "delete"
    /\ nops' = [nops EXCEPT ![p] = @ + 1]
    /\ nodes' = DeleteModel(nodes, rels, model_id[p]).nodes
    /\ rels' = DeleteModel(nodes, rels, model_id[p]).rels
    /\ IF op[p] = "delete_model"
       THEN /\ pc' = [pc EXCEPT ![p] = "idle"]
            /\ ret' = [ret EXCEPT ![p] = Outcome(op[p], "returned")]
       ELSE /\ pc' = [pc EXCEPT ![p] = "parse"]
            /\ UNCHANGED ret
    /\ UNCHANGED <<op, model_id, model_list, idx, nod, rel, pre, again, ids, calc>>

\* sbml.SbmlToNeo4j.from_sbml, format_nodes, format_relationships
ParseStep(p) ==
    /\ pc[p] = "parse"
    /\ \E f \in SyncFiles :
          /\ nod' = [nod EXCEPT ![p] = FormatNodes(f, model_id[p])]
          /\ rel' = [rel EXCEPT ![p] = FormatRelationships(f, model_id[p])]
    /\ pc' = [pc EXCEPT ![p] = "create_nodes"]
    /\ UNCHANGED <<nodes, rels, op, model_id, model_list, idx, ret, pre, nops, again, ids, calc>>

\* connection.create_nodes(nodes=nod)
CreateNodesStep(p) ==
    /\ pc[p] = "create_nodes"
    /\ nops' = [nops EXCEPT ![p] = @ + 1]
    /\ nodes' = CreateNodes(nodes, nod[p])
    /\ pc' = [pc EXCEPT ![p] = "create_rels"]
    /\ UNCHANGED <<rels, op, model_id, model_list, idx, nod, rel, ret, pre, again, ids, calc>>

\* connection.create_relationships(relationships=rel)
CreateRelsStep(p) ==
    /\ pc[p] = "create_rels"
    /\ nops' = [nops EXCEPT ![p] = @ + 1]
    /\ rels' = CreateRelationships(nodes, rels, rel[p])
    /\ pc' = [pc EXCEPT ![p] = "load_return"]
    /\ UNCHANGED <<nodes, op, model_id, model_list, idx, nod, rel, ret, pre, again, ids, calc>>

\* import_models: load_and_import_model returned, the loop takes the next model
NextModel(p) ==
    /\ pc[p] = "load_return"
    /\ op[p] = "import_models"
    /\ idx[p] < Len(BatchPlan(model_list[p]))
    /\ idx' = [idx EXCEPT ![p] = @ + 1]
    /\ model_id' = [model_id EXCEPT ![p] = BatchPlan(model_list[p])[idx[p] + 1]]
    /\ again' = [again EXCEPT ![p] =
                   IF BatchPlan(model_list[p])[idx[p] + 1] = model_id[p]
                   THEN [valid |-> TRUE, nod |-> nod[p], rel |-> rel[p]] ELSE NoPrior]
    /\ nod' = [nod EXCEPT ![p] = {}]
    /\ rel' = [rel EXCEPT ![p] = {}]
    /\ pre' = [pre EXCEPT ![p] = Snapshot]
    /\ pc' = [pc EXCEPT ![p] = "check"]
    /\ UNCHANGED <<nodes, rels, op, model_list, ret, nops, ids, calc>>

\* load_and_import_model returns to the user, or the loop of import_models ends
Return(p) ==
    /\ pc[p] = "load_return"
    /\ op[p] = "import_models" => idx[p] >= Len(BatchPlan(model_list[p]))
    /\ pc' = [pc EXCEPT ![p] = "idle"]
    /\ ret' = [ret EXCEPT ![p] = Outcome(op[p], "returned")]
    /\ UNCHANGED <<nodes, rels, op, model_id, model_list, idx, nod, rel, pre, nops, again, ids, calc>>

\* the store client raises: nothing catches it, the method called by the user ends
StoreFails(p) ==
    /\ pc[p] \in {"check", "delete", "create_nodes", "create_rels", "compare"}
    /\ nops' = [nops EXCEPT ![p] = @ + 1]
    /\ pc' = [pc EXCEPT ![p] = "idle"]
    /\ ret' = [ret EXCEPT ![p] = Outcome(op[p], "StoreError")]
    /\ UNCHANGED <<nodes, rels, op, model_id, model_list, idx, nod, rel, pre, again, ids, calc>>

\* the parser or mapper raises (missing or malformed file)
MappingFails(p) ==
    /\ pc[p] = "parse"
    /\ pc' = [pc EXCEPT ![p] = "idle"]
    /\ ret' = [ret EXCEPT ![p] = Outcome(op[p], "MappingError")]
    /\ UNCHANGED <<nodes, rels, op, model_id, model_list, idx, nod, rel, pre, nops, again, ids, calc>>

\* database.compare_models(a, b)
CallCompare(p, a, b) ==
    /\ Enter(p, "compare_models", None, <<>>, 0, "compare")
    /\ ids' = [ids EXCEPT ![p] = <<a, b>>]
    /\ ret' = [ret EXCEPT ![p] = NoRet]
    /\ again' = [again EXCEPT ![p] = NoPrior]

\* compare_models: the query, then `accuracy = result[0]['similarity_score']`
CompareStep(p) ==
    /\ pc[p] = "compare"
    /\ nops' = [nops EXCEPT ![p] = @ + 1]
    /\ pc' = [pc EXCEPT ![p] = "idle"]
    /\ LET result == QueryRows(nodes, rels, ids[p][1], ids[p][2])
       IN  IF result = {}
           THEN ret' = [ret EXCEPT ![p] = Outcome(op[p], "IndexError")]
           ELSE \E row \in result :
                   ret' = [ret EXCEPT ![p] = [Outcome(op[p], "returned") EXCEPT !.score = row]]
    /\ UNCHANGED <<nodes, rels, op, model_id, model_list, idx, nod, rel, pre, again, ids, calc>>

\* a store in which every tag is absent or was synchronised from some file
NoFile == [mid |-> None, kids |-> {}, nest |-> {}]

Import(st, f, tag) ==
    IF f = NoFile THEN st
    ELSE [nodes |-> CreateNodes(st.nodes, FormatNodes(f, tag)),
          rels  |-> CreateRelationships(CreateNodes(st.nodes, FormatNodes(f, tag)),
                                        st.rels, FormatRelationships(f, tag))]

InitCmp ==
    /\ \E f1 \in Files \cup {NoFile}, f2 \in Files \cup {NoFile} :
          /\ nodes = Import(Import([nodes |-> {}, rels |-> {}], f1, "t1"), f2, "t2").nodes
          /\ rels = Import(Import([nodes |-> {}, rels |-> {}], f1, "t1"), f2, "t2").rels
    /\ pc = [p \in Procs |-> "idle"]
    /\ op = [p \in Procs |-> None]
    /\ model_id = [p \in Procs |-> None]
    /\ model_list = [p \in Procs |-> <<>>]
    /\ idx = [p \in Procs |-> 0]
    /\ nod = [p \in Procs |-> {}]
    /\ rel = [p \in Procs |-> {}]
    /\ ret = [p \in Procs |-> NoRet]
    /\ pre = [p \in Procs |-> [nodes |-> {}, rels |-> {}]]
    /\ nops = [p \in Procs |-> 0]
    /\ again = [p \in Procs |-> NoPrior]
    /\ ids = [p \in Procs |-> <<None, None>>]
    /\ calc = NoCalc

NextCmp ==
    \E p \in SeqProcs :
        \/ \E a \in ModelIds, b \in ModelIds : CallCompare(p, a, b)
        \/ CompareStep(p)
        \/ StoreFails(p)

SpecCmp == InitCmp /\ [][NextCmp]_vars

Next ==
    \E p \in SeqProcs :
        \/ \E t \in Tags : CallLoad(p, t)
        \/ \E list \in Lists : CallImportModels(p, list)
        \/ \E t \in Tags : CallCheck(p, t)
        \/ \E t \in Tags : CallDelete(p, t)
        \/ CheckStep(p)
        \/ DeleteStep(p)
        \/ ParseStep(p)
        \/ CreateNodesStep(p)
        \/ CreateRelsStep(p)
        \/ NextModel(p)
        \/ Return(p)
        \/ StoreFails(p)
        \/ MappingFails(p)

Spec == Init /\ [][Next]_vars

----
\* ------------------------------------------------- shapes used by the claims
\* a node without the identity the store gave it
Strip(n) == [tag |-> n.tag, label |-> n.label, id |-> n.id]

\* how many stored nodes (relationships) there are of each shape
NodeShape(ns) ==
    [x \in {Strip(n) : n \in ns} |-> Cardinality({n \in ns : Strip(n) = x})]

RelShape(rs) ==
    [x \in {<<Strip(r.src), Strip(r.dst), r.type>> : r \in rs} |->
        Cardinality({r \in rs : <<Strip(r.src), Strip(r.dst), r.type>> = x})]

\* the relationships attached to a node of the tag
TagRels(ns, rs, tag) == {r \in rs : r.src \in MatchTag(ns, tag) \/ r.dst \in MatchTag(ns, tag)}

Syncing(p) == op[p] \in {"load_and_import_model", "import_models"}

\* C1: when load_and_import_model(T) returns, a node with tag T exists, the
\* nodes with tag T are exactly one copy of the formatted nodes of this call
\* (one store identity), and the relationships attached to them are exactly
\* the formatted relationships of this call between those nodes.
C1_SyncLeavesOneSubgraph ==
    \A p \in Procs :
        (Syncing(p) /\ pc[p] = "load_return") =>
            /\ MatchTag(nodes, model_id[p]) # {}
            /\ \E i \in 0..Cardinality(nodes) :
                 /\ MatchTag(nodes, model_id[p]) =
                      { [tag |-> n.tag, imp |-> i, label |-> n.label, id |-> n.id] : n \in nod[p] }
                 /\ TagRels(nodes, rels, model_id[p]) =
                      { [src |-> [tag |-> r.tag, imp |-> i, label |-> r.slabel, id |-> r.sid],
                         dst |-> [tag |-> r.tag, imp |-> i, label |-> r.dlabel, id |-> r.did],
                         type |-> r.type] : r \in rel[p] }

\* an older, different version of the tag was stored when the call began
OldVersionAtEntry(p) ==
    /\ MatchTag(pre[p].nodes, model_id[p]) # {}
    /\ {Strip(n) : n \in MatchTag(pre[p].nodes, model_id[p])} # nod[p]

C1_Witness ==
    \E p \in Procs :
        /\ Syncing(p) /\ pc[p] = "load_return"
        /\ OldVersionAtEntry(p)
        /\ TagRels(pre[p].nodes, pre[p].rels, model_id[p]) # {}
        /\ rel[p] # {}

\* C2: when load_and_import_model(T) returns and the call directly before it
\* was a successful sync of T that formatted the same records (same source),
\* the store has the shape it had when the second call began: the same
\* number of nodes and relationships of every shape.
C2_SyncTwiceSameAsOnce ==
    \A p \in Procs :
        (/\ Syncing(p) /\ pc[p] = "load_return"
         /\ again[p].valid /\ again[p].nod = nod[p] /\ again[p].rel = rel[p]) =>
            /\ NodeShape(nodes) = NodeShape(pre[p].nodes)
            /\ RelShape(rels) = RelShape(pre[p].rels)

C2_Witness ==
    \E p \in Procs :
        /\ Syncing(p) /\ pc[p] = "load_return"
        /\ again[p].valid /\ again[p].nod = nod[p] /\ again[p].rel = rel[p]
        /\ rel[p] # {}
        /\ \E n \in nodes : n.tag # model_id[p]

\* C3: check_model_exists(T) ends only by returning or by the store client's
\* own error; when it returns, its value is true exactly when the store holds
\* a node whose tag is T (false on zero rows).
C3_ExistsIffTagged ==
    \A p \in Procs :
        ret[p].op = "check_model_exists" =>
            /\ ret[p].status \in {"returned", "StoreError"}
            /\ ret[p].status = "returned" =>
                 (ret[p].found <=> (\E n \in nodes : n.tag = model_id[p]))

C3_Witness ==
    \E p \in Procs :
        /\ ret[p].op = "check_model_exists" /\ ret[p].status = "returned"
        /\ ~ ret[p].found
        /\ nodes # {}

\* C4: delete_model(T) ends only by returning or by the store client's own
\* error; when no node had tag T at the call the store is unchanged, and
\* after it returned no node has tag T (so a second delete changes nothing).
C4_DeleteAbsentIsNoop ==
    \A p \in Procs :
        ret[p].op = "delete_model" =>
            /\ ret[p].status \in {"returned", "StoreError"}
            /\ MatchTag(pre[p].nodes, model_id[p]) = {} =>
                 (nodes = pre[p].nodes /\ rels = pre[p].rels)
            /\ ret[p].status = "returned" => MatchTag(nodes, model_id[p]) = {}

C4_Witness ==
    \E p \in Procs :
        /\ ret[p].op = "delete_model" /\ ret[p].status = "returned"
        /\ MatchTag(pre[p].nodes, model_id[p]) = {}
        /\ nodes # {} /\ rels # {}

\* C5: import_models([]) returns without a failure, has issued no store
\* operation and leaves the store as it was at the call.
C5_EmptyBatchIsNoop ==
    \A p \in Procs :
        (ret[p].op = "import_models" /\ model_list[p] = <<>>) =>
            /\ ret[p].status = "returned"
            /\ nops[p] = 0
            /\ nodes = pre[p].nodes /\ rels = pre[p].rels

C5_Witness ==
    \E p \in Procs :
        /\ ret[p].op = "import_models" /\ model_list[p] = <<>>
        /\ pc[p] = "idle"
        /\ nodes # {} /\ rels # {}

\* C6: when import_models(tags) has ended, every tag of the list was taken
\* up by the loop: a failure of one tag does not keep the later tags from
\* being synchronised.
C6_BatchVisitsEveryTag ==
    \A p \in Procs :
        (ret[p].op = "import_models" /\ pc[p] = "idle") =>
            idx[p] = Len(model_list[p])

\* C7: within load_and_import_model(T), between the existence check and the
\* node write no node has tag T (the old version is gone before anything new
\* is written), and after the node write the nodes with tag T are one copy of
\* the new records: old and new nodes never coexist.
C7_DeleteBeforeCreate ==
    \A p \in Procs :
        Syncing(p) =>
            /\ pc[p] \in {"parse", "create_nodes"} => MatchTag(nodes, model_id[p]) = {}
            /\ pc[p] \in {"create_rels", "load_return"} =>
                 /\ {Strip(n) : n \in MatchTag(nodes, model_id[p])} = nod[p]
                 /\ Cardinality(MatchTag(nodes, model_id[p])) = Cardinality(nod[p])

C7_Witness ==
    \E p \in Procs :
        /\ Syncing(p) /\ pc[p] = "create_rels"
        /\ OldVersionAtEntry(p)
        /\ \E n \in nodes : n.tag # model_id[p]

\* C8: compare_models(A, B) with no Model node of id A or none of id B ends
\* with a not-found error (not with a score, not with another error).
C8_AbsentRootIsNotFound ==
    \A p \in Procs :
        (/\ ret[p].op = "compare_models"
         /\ ret[p].status # "StoreError"
         /\ (Roots(nodes, ids[p][1]) = {} \/ Roots(nodes, ids[p][2]) = {})) =>
            ret[p].status = "NotFoundError"

\* C9: compare_models(T, T) on a stored model T returns 1.0, with structural
\* similarity 1.0 and child similarity 1.0, whatever children T has.
C9_SelfSimilarityIsOne ==
    \A p \in Procs :
        (/\ ret[p].op = "compare_models"
         /\ ret[p].status # "StoreError"
         /\ ids[p][1] = ids[p][2]
         /\ Cardinality(Roots(nodes, ids[p][1])) = 1) =>
            /\ ret[p].status = "returned"
            /\ ret[p].score = One
            /\ \A n \in Roots(nodes, ids[p][1]) :
                 /\ StructureOf(rels, n, n) = One
                 /\ ChildrenSimilarity(rels, n, n) = One

\* C10: compare_models(A, B) returns a score whenever a Model node of id A
\* and one of id B exist, also when a model has no children, no children
\* with a label found on the other side, or no descendants.
C10_PresentRootsGiveScore ==
    \A p \in Procs :
        (/\ ret[p].op = "compare_models"
         /\ ret[p].status # "StoreError"
         /\ Roots(nodes, ids[p][1]) # {}
         /\ Roots(nodes, ids[p][2]) # {}) =>
            ret[p].status = "returned"

----
\* ------------------------------------------- the structural similarity alone
\* the four counts of the query's second WITH: the paths that leave a root
\* are among the paths that touch it, so an element count never exceeds the
\* relationship count of the same root
InitStruct ==
    /\ nodes = {}
    /\ rels = {}
    /\ pc = [p \in Procs |-> "idle"]
    /\ op = [p \in Procs |-> None]
    /\ model_id = [p \in Procs |-> None]
    /\ model_list = [p \in Procs |-> <<>>]
    /\ idx = [p \in Procs |-> 0]
    /\ nod = [p \in Procs |-> {}]
    /\ rel = [p \in Procs |-> {}]
    /\ ret = [p \in Procs |-> NoRet]
    /\ pre = [p \in Procs |-> [nodes |-> {}, rels |-> {}]]
    /\ nops = [p \in Procs |-> 0]
    /\ again = [p \in Procs |-> NoPrior]
    /\ ids = [p \in Procs |-> <<None, None>>]
    /\ \E e1 \in 0..MaxCount, e2 \in 0..MaxCount :
         \E r1 \in e1..MaxCount, r2 \in e2..MaxCount :
            calc = [NoCalc EXCEPT !.n1_elements = e1, !.n2_elements = e2,
                                  !.n1_relationships = r1, !.n2_relationships = r2]

\* the third WITH of the query: CASE ... END AS structural_similarity
ComputeStructural ==
    /\ ~ calc.done
    /\ calc' = [calc EXCEPT !.done = TRUE,
                            !.structural_similarity =
                               StructuralSimilarity(calc.n1_elements, calc.n2_elements,
                                                    calc.n1_relationships, calc.n2_relationships)]
    /\ UNCHANGED <<nodes, rels, pc, op, model_id, model_list, idx, nod, rel, ret, pre,
                   nops, again, ids>>

NextStruct == ComputeStructural

SpecStruct == InitStruct /\ [][NextStruct]_vars

\* a relative-difference term as the claim has it: 1.0 when its counts sum to zero
SpecialCasedTerm(c1, c2) == IF c1 + c2 = 0 THEN One ELSE RelDiffTerm(c1, c2)

C12_ScoreInUnitInterval ==
    \A p \in Procs :
        (ret[p].op = "compare_models" /\ ret[p].status = "returned") =>
            /\ ret[p].score[2] > 0
            /\ 0 <= ret[p].score[1]
            /\ ret[p].score[1] <= ret[p].score[2]

C12_Witness ==
    \E p \in Procs :
        /\ ret[p].op = "compare_models" /\ ret[p].status = "returned"
        /\ ids[p][1] # ids[p][2]
        /\ 0 < ret[p].score[1]
        /\ ret[p].score[1] < ret[p].score[2]

\* C14: when the counts are not pairwise equal and both sums are positive,
\* the structural similarity is 0.5*(1 - |eA-eB|/(eA+eB)) + 0.5*(1 - |rA-rB|/(rA+rB)),
\* it is the same with A and B exchanged, and for 10 against 8 elements with
\* equal relationship counts it is 17/18.
C14_StructuralFormula ==
    LET eA == calc.n1_elements
        eB == calc.n2_elements
        rA == calc.n1_relationships
        rB == calc.n2_relationships
        s  == calc.structural_similarity
    IN  (/\ calc.done
         /\ ~ (eA = eB /\ rA = rB)
         /\ eA + eB > 0
         /\ rA + rB > 0) =>
            /\ s[2] > 0
            /\ s[1] * (2 * (eA + eB) * (rA + rB)) =
                 s[2] * (((eA + eB) - Abs(eA - eB)) * (rA + rB)
                          + ((rA + rB) - Abs(rA - rB)) * (eA + eB))
            /\ StructuralSimilarity(eB, eA, rB, rA) = s
            /\ (eA = 10 /\ eB = 8 /\ rA = rB) => s = <<17, 18>>

C14_Witness ==
    /\ calc.done
    /\ calc.n1_elements = 10 /\ calc.n2_elements = 8
    /\ calc.n1_relationships = calc.n2_relationships
    /\ calc.structural_similarity = <<17, 18>>

----
\* --------------------------------------------- models with more children
\* files with up to MaxWideKids compartments and species over three ids
WideIds == {"x", "y", "z"}

WideFiles(m) ==
    { [mid |-> m, kids |-> ks, nest |-> {}] :
        ks \in SmallSubsets([label : {"Compartment", "Species"}, id : WideIds], MaxWideKids) }

\* a store holding model m1 under tag t1 and model m2 under tag t2
InitKids ==
    /\ \E f1 \in WideFiles("m1"), f2 \in WideFiles("m2") :
          /\ nodes = Import(Import([nodes |-> {}, rels |-> {}], f1, "t1"), f2, "t2").nodes
          /\ rels = Import(Import([nodes |-> {}, rels |-> {}], f1, "t1"), f2, "t2").rels
    /\ pc = [p \in Procs |-> "idle"]
    /\ op = [p \in Procs |-> None]
    /\ model_id = [p \in Procs |-> None]
    /\ model_list = [p \in Procs |-> <<>>]
    /\ idx = [p \in Procs |-> 0]
    /\ nod = [p \in Procs |-> {}]
    /\ rel = [p \in Procs |-> {}]
    /\ ret = [p \in Procs |-> NoRet]
    /\ pre = [p \in Procs |-> [nodes |-> {}, rels |-> {}]]
    /\ nops = [p \in Procs |-> 0]
    /\ again = [p \in Procs |-> NoPrior]
    /\ ids = [p \in Procs |-> <<None, None>>]
    /\ calc = NoCalc

SpecKids == InitKids /\ [][NextCmp]_vars

\* the direct children of a root that have a child of the same label on the
\* other side
MatchedChildren(rs, n, other) ==
    { r.dst : r \in {r \in ChildRels(rs, n) :
                        \E q \in ChildRels(rs, other) : q.dst.label = r.dst.label} }

\* C13: the child similarity is the number of A-side children whose id is
\* among the ids of the B-side children, over the number of A-side children,
\* every A-side child counted once however many children of its label B has.
C13_ChildSimilarityCountsOnce ==
    \A p \in Procs :
        (ret[p].op = "compare_models" /\ ret[p].status = "returned") =>
            \A n1 \in Roots(nodes, ids[p][1]), n2 \in Roots(nodes, ids[p][2]) :
                PairRows(rels, n1, n2) # {} =>
                    ChildrenSimilarity(rels, n1, n2) =
                        Frac(Cardinality({c \in MatchedChildren(rels, n1, n2) :
                                            c.id \in {d.id : d \in MatchedChildren(rels, n2, n1)}}),
                             Cardinality(MatchedChildren(rels, n1, n2)))

----
\* ------------------------------------------------ failures and other tags
\* C15: when a sync of a stored tag T ends between the delete and the node
\* write (the parser or mapper raises, or create_nodes raises), the caller
\* gets that error and no node of T is in the store: the old version is not
\* restored and nothing of the new one is written.
C15_FailureAfterDeleteLeavesAbsent ==
    [][ \A p \in Procs :
          (/\ Syncing(p)
           /\ pc[p] \in {"parse", "create_nodes"}
           /\ pc'[p] = "idle"
           /\ MatchTag(pre[p].nodes, model_id[p]) # {}) =>
              /\ ret'[p].op = op[p]
              /\ ret'[p].status \in {"MappingError", "StoreError"}
              /\ MatchTag(nodes', model_id[p]) = {} ]_vars

C15_Witness ==
    \E p \in Procs :
        /\ Syncing(p) /\ pc[p] = "idle"
        /\ ret[p].status = "MappingError"
        /\ MatchTag(pre[p].nodes, model_id[p]) # {}
        /\ TagRels(pre[p].nodes, pre[p].rels, model_id[p]) # {}
        /\ MatchTag(nodes, model_id[p]) = {}

\* the nodes (relationships) of file f stored under tag t with identity i
StoredNodes(f, t, i) ==
    { [tag |-> n.tag, imp |-> i, label |-> n.label, id |-> n.id] : n \in FormatNodes(f, t) }

StoredRels(f, t, i) ==
    { [src |-> [tag |-> r.tag, imp |-> i, label |-> r.slabel, id |-> r.sid],
       dst |-> [tag |-> r.tag, imp |-> i, label |-> r.dlabel, id |-> r.did],
       type |-> r.type] : r \in FormatRelationships(f, t) }

Absent(t) == MatchTag(nodes, t) = {}

Complete(t) ==
    \E f \in SyncFiles, i \in 0..Cardinality(nodes) :
        /\ MatchTag(nodes, t) = StoredNodes(f, t, i)
        /\ TagRels(nodes, rels, t) = StoredRels(f, t, i)

\* C16: between calls every tag is absent or a complete subgraph of one
\* version (all its nodes and all its relationships); no failure leaves
\* nodes without their relationships.
C16_AbsentOrComplete ==
    (\A p \in Procs : pc[p] = "idle") => \A t \in Tags : Absent(t) \/ Complete(t)

\* C17: both endpoints of every stored relationship are stored nodes, and
\* while a sync of T has not written its nodes yet no relationship of T is
\* stored.
C17_NoDanglingRelationship ==
    /\ \A r \in rels : r.src \in nodes /\ r.dst \in nodes
    /\ \A p \in Procs :
         (Syncing(p) /\ pc[p] \in {"parse", "create_nodes"}) =>
            \A r \in rels : r.src.tag # model_id[p] /\ r.dst.tag # model_id[p]

C17_Witness ==
    \E p \in Procs :
        /\ ret[p].op = "delete_model" /\ ret[p].status = "returned"
        /\ TagRels(pre[p].nodes, pre[p].rels, model_id[p]) # {}
        /\ rels # {}

\* a caller's one call of load_and_import_model
CallLoadOnce(p, t) ==
    /\ op[p] = None
    /\ CallLoad(p, t)

\* two callers, each calling load_and_import_model once
NextConc ==
    \E p \in Procs :
        \/ \E t \in Tags : CallLoadOnce(p, t)
        \/ CheckStep(p)
        \/ DeleteStep(p)
        \/ ParseStep(p)
        \/ CreateNodesStep(p)
        \/ CreateRelsStep(p)
        \/ Return(p)

SpecConc == Init /\ [][NextConc]_vars

\* C18: when two concurrent calls load_and_import_model(T) have both
\* returned, the nodes of T are one copy (one store identity), never two.
C18_ConcurrentSyncOneCopy ==
    \A t \in Tags :
        (\A p \in Procs : /\ pc[p] = "idle"
                          /\ ret[p].status = "returned"
                          /\ model_id[p] = t) =>
            \A n1 \in MatchTag(nodes, t), n2 \in MatchTag(nodes, t) : n1.imp = n2.imp

RelsOfTag(rs, t) == {r \in rs : r.src.tag = t \/ r.dst.tag = t}

\* C19: a step changes the nodes and relationships of a tag only when it is
\* a store operation of a call for that tag, removes nodes of a tag only when
\* it is the delete query for that tag, and leaves no relationship between
\* nodes of two tags.
C19_OtherTagsUntouched ==
    [][ /\ \A t \in Tags :
             (\/ MatchTag(nodes', t) # MatchTag(nodes, t)
              \/ RelsOfTag(rels', t) # RelsOfTag(rels, t)) =>
                 \E p \in Procs : /\ pc[p] \in {"delete", "create_nodes", "create_rels"}
                                  /\ model_id[p] = t
        /\ \A t \in Tags :
             ~ (MatchTag(nodes, t) \subseteq nodes') =>
                 \E p \in Procs : pc[p] = "delete" /\ model_id[p] = t
        /\ \A r \in rels' : r.src.tag = r.dst.tag ]_vars

C19_Witness ==
    \E p \in Procs :
        /\ ret[p].op = "delete_model" /\ ret[p].status = "returned"
        /\ MatchTag(pre[p].nodes, model_id[p]) # {}
        /\ \E r \in rels : r.src.tag # model_id[p]

====
